---- MODULE Spec2Model ----
(***************************************************************************)
(* Model of src/portfolio.js: a contact form whose submit listener posts   *)
(* the form with fetch(), a confirmation overlay (modal) shown on a        *)
(* successful response, and two click listeners that dismiss the overlay.  *)
(*                                                                         *)
(* The page is single threaded: every listener and every promise callback  *)
(* runs to completion, so each is one action.  The .then/.catch callbacks  *)
(* of one settlement run in consecutive microtasks, with no user event in  *)
(* between, so a settlement and its callbacks are one action as well.      *)
(***************************************************************************)
EXTENDS Naturals, Sequences, FiniteSets

\* Number of submit events considered in one page life.
MaxSubmits == 2

\* The form's controls and the values a control may hold.
Fields == {"message"}
Values == {"", "a"}

\* Elements a click may have as its target: the overlay itself, a descendant
\* of the overlay outside the close button, the close button, an element
\* inside the close button, and any element outside the overlay.
Targets == {"modal", "modalContent", "closeBtn", "closeBtnChild", "other"}

\* HTTP statuses a response may carry.
Statuses == {200, 299, 500}

\* The two alert texts, as their sequences of Unicode code points.
\* line 22: alert("送信に失敗しました。")
HttpFailureMessage ==
    <<36865, 20449, 12395, 22833, 25943, 12375, 12414, 12375, 12383, 12290>>
\* line 26: alert("通信エラーが発生しました。")
NetworkErrorMessage ==
    <<36890, 20449, 12456, 12521, 12540, 12364, 30330, 29983, 12375, 12414,
      12375, 12383, 12290>>

VARIABLES
    fields,         \* the form's current field values
    defaultValues,  \* the field values of the markup, which form.reset() restores
    display,        \* modal.style.display
    attempts,       \* one record per submit event, in order of the events
    reloads,        \* default navigations the browser performed
    resetShadowed,  \* the form has a control named (or with id) "reset"
    lastEvent       \* the event or settlement handled last

vars == <<fields, defaultValues, display, attempts, reloads, resetShadowed,
          lastEvent>>

\* One effect a handler performed, in program order.
Eff(op) == [op |-> op, text |-> <<>>]
AlertEff(msg) == [op |-> "alert", text |-> msg]

\* The overlay's display state when the page has loaded.  The script never
\* sets it before a response; the markup and style sheet that do are not
\* part of the script, and the specification states that the overlay starts
\* hidden.
InitialDisplay == "none"

\* Response.ok: the status is in the range 200-299.
ResponseOk(status) == status >= 200 /\ status <= 299

----------------------------------------------------------------------------
\* Handlers.  A handler working on the page takes and returns a record
\* [fields, display, log, threw]: the form's values, the overlay's display,
\* the effects performed for the attempt so far, and whether the handler
\* ended by throwing.

\* The form's reset method, where form.reset is that method.
FormReset(f) == defaultValues

\* The success branch of the .then callback, lines 19-20.  A control of the
\* form named "reset" is what form.reset evaluates to; calling it throws a
\* TypeError before anything is done.  Otherwise the form is reset and the
\* overlay shown.
SuccessBranch(w) ==
    IF resetShadowed
    THEN [w EXCEPT !.threw = TRUE]
    ELSE [w EXCEPT !.fields = FormReset(w.fields),
                   !.display = "block",
                   !.log = Append(Append(@, Eff("reset")), Eff("show"))]

Alert(w, msg) == [w EXCEPT !.log = Append(@, AlertEff(msg))]

\* Faulty variant: the listener does not prevent the default action.
SubmitListenerNoPrevent(f) ==
    [prevented |-> FALSE, payload |-> f, state |-> "pending", status |-> 0,
     log |-> <<Eff("FormData"), Eff("fetch")>>,
     edited |-> FALSE, resetSince |-> FALSE]
\* Faulty variant: the FormData is built without the form and is empty.
SubmitListenerEmptyFormData(f) ==
    [prevented |-> TRUE, payload |-> [x \in DOMAIN f |-> ""],
     state |-> "pending", status |-> 0,
     log |-> <<Eff("preventDefault"), Eff("FormData"), Eff("fetch")>>,
     edited |-> FALSE, resetSince |-> FALSE]
\* The submit listener up to the fetch call: e.preventDefault(), the FormData
\* snapshot of the form, and the request issued with it.
SubmitListener(f) ==
    [prevented |-> TRUE, payload |-> f, state |-> "pending", status |-> 0,
     log |-> <<Eff("preventDefault"), Eff("FormData"), Eff("fetch")>>,
     edited |-> FALSE, resetSince |-> FALSE]

\* Faulty variant: the overlay is shown for every response.
ThenCallbackShowAlways(w, status) ==
    IF ResponseOk(status)
    THEN SuccessBranch(w)
    ELSE [Alert(w, HttpFailureMessage) EXCEPT !.display = "block"]
\* Faulty variant: the form is reset for every response.
ThenCallbackResetAlways(w, status) ==
    IF ResponseOk(status)
    THEN SuccessBranch(w)
    ELSE [Alert(w, HttpFailureMessage) EXCEPT !.fields = FormReset(w.fields)]
\* The .then callback, run when the fetch promise fulfils with a response.
ThenCallback(w, status) ==
    IF ResponseOk(status)
    THEN SuccessBranch(w)
    ELSE Alert(w, HttpFailureMessage)

\* Faulty variant: the alert carries the text of line 22.
CatchCallbackSameText(w) == Alert(w, HttpFailureMessage)
\* Faulty variant: the form is reset on a transport failure.
CatchCallbackReset(w) == [Alert(w, NetworkErrorMessage) EXCEPT
                              !.fields = FormReset(w.fields)]
\* Faulty variant: the request is issued again on a transport failure.
CatchCallbackRetry(w) == [Alert(w, NetworkErrorMessage) EXCEPT
                              !.log = Append(@, Eff("fetch"))]
\* The .catch callback, run when the promise returned by .then rejects.
CatchCallback(w) == Alert(w, NetworkErrorMessage)

\* Faulty variant: the chain has no .catch, a rejection is handled by nothing.
PromiseChainNoCatch(w, settled, status) ==
    IF settled = "fulfilled" THEN ThenCallback(w, status) ELSE w
\* fetch(...).then(cb).catch(cb): a fulfilled fetch runs the .then callback;
\* when the callback returns normally the promise .then returned fulfils and
\* the .catch callback is skipped, and when it throws that promise rejects
\* and the .catch callback runs on what the .then callback left.  A rejected
\* fetch passes through .then, which has no rejection callback, and runs the
\* .catch callback.
PromiseChain(w, settled, status) ==
    IF settled = "fulfilled"
    THEN LET r == ThenCallback(w, status)
         IN  IF r.threw THEN CatchCallback(r) ELSE r
    ELSE CatchCallback(w)

\* Faulty variant: the close button toggles the overlay.
CloseBtnListenerToggle(d) == IF d = "none" THEN "block" ELSE "none"
\* The close button's click listener.
CloseBtnListener(d) == "none"

\* Faulty variant: a click anywhere inside the overlay hides it.
WindowListenerContains(target, d) ==
    IF target \in {"modal", "modalContent"} THEN "none" ELSE d
\* The window's click listener.
WindowListener(target, d) == IF target = "modal" THEN "none" ELSE d

\* The click's path passes through the close button: the target is the
\* button or an element inside it.
ThroughCloseBtn(target) == target \in {"closeBtn", "closeBtnChild"}

\* Dispatch of one click: the close button's listener runs when the click's
\* path passes through the button, then the event bubbles to the window's
\* listener, which sees the target.
ClickDispatch(target, d) ==
    WindowListener(target,
                   IF ThroughCloseBtn(target) THEN CloseBtnListener(d) ELSE d)

----------------------------------------------------------------------------
Event(type, target) == [type |-> type, target |-> target]

\* The page as loaded: the form, the overlay and the close button exist, as
\* lines 5, 20 and 30 need; the form may or may not have a control named
\* "reset".
Init ==
    /\ defaultValues \in [Fields -> Values]
    /\ resetShadowed \in BOOLEAN
    /\ fields = defaultValues
    /\ display = InitialDisplay
    /\ attempts = <<>>
    /\ reloads = 0
    /\ lastEvent = Event("load", "")

\* The user changes the value of one control.  Every outstanding attempt
\* records that the form was edited after its submit event.
Edit ==
    \E f \in Fields, v \in Values :
        /\ fields[f] # v
        /\ fields' = [fields EXCEPT ![f] = v]
        /\ attempts' = [i \in DOMAIN attempts |->
                           IF attempts[i].state = "pending"
                           THEN [attempts[i] EXCEPT !.edited = TRUE]
                           ELSE attempts[i]]
        /\ lastEvent' = Event("input", "form")
        /\ UNCHANGED <<defaultValues, display, reloads, resetShadowed>>

\* Faulty variant: the listener returns at once while a request is
\* outstanding.
SubmitGuarded ==
    /\ Len(attempts) < MaxSubmits
    /\ \A i \in DOMAIN attempts : attempts[i].state # "pending"
    /\ LET a == SubmitListener(fields)
       IN  /\ attempts' = Append(attempts, a)
           /\ reloads' = IF a.prevented THEN reloads ELSE reloads + 1
    /\ lastEvent' = Event("submit", "form")
    /\ UNCHANGED <<fields, defaultValues, display, resetShadowed>>
\* A submit event of the form: the listener runs, then the browser performs
\* the default action unless the listener prevented it.
Submit ==
    /\ Len(attempts) < MaxSubmits
    /\ LET a == SubmitListener(fields)
       IN  /\ attempts' = Append(attempts, a)
           /\ reloads' = IF a.prevented THEN reloads ELSE reloads + 1
    /\ lastEvent' = Event("submit", "form")
    /\ UNCHANGED <<fields, defaultValues, display, resetShadowed>>

\* The fetch promise of attempt i settles and its callbacks run.  Every
\* other outstanding attempt records whether the form was reset meanwhile.
Settle(i, settled, status) ==
    /\ attempts[i].state = "pending"
    /\ LET w == PromiseChain([fields |-> fields, display |-> display,
                              log |-> attempts[i].log, threw |-> FALSE],
                             settled, status)
           reset == \E k \in 1..Len(w.log) :
                        k > Len(attempts[i].log) /\ w.log[k].op = "reset"
       IN  /\ fields' = w.fields
           /\ display' = w.display
           /\ attempts' = [j \in DOMAIN attempts |->
                  IF j = i
                  THEN [attempts[i] EXCEPT !.state = settled,
                                           !.status = status,
                                           !.log = w.log]
                  ELSE IF attempts[j].state = "pending" /\ reset
                       THEN [attempts[j] EXCEPT !.resetSince = TRUE]
                       ELSE attempts[j]]
    /\ lastEvent' = Event("settle", "fetch")
    /\ UNCHANGED <<defaultValues, reloads, resetShadowed>>

\* A response arrives for attempt i.
Respond ==
    \E i \in DOMAIN attempts, status \in Statuses : Settle(i, "fulfilled", status)

\* The request of attempt i fails at transport level.
Reject ==
    \E i \in DOMAIN attempts : Settle(i, "rejected", 0)

\* Faulty variant: dismissing the overlay with the close button also resets
\* the form.
ClickResetsForm ==
    \E t \in Targets :
        /\ display' = ClickDispatch(t, display)
        /\ fields' = IF ThroughCloseBtn(t) THEN FormReset(fields) ELSE fields
        /\ lastEvent' = Event("click", t)
        /\ UNCHANGED <<defaultValues, attempts, reloads, resetShadowed>>
\* A click anywhere in the window.
Click ==
    \E t \in Targets :
        /\ display' = ClickDispatch(t, display)
        /\ lastEvent' = Event("click", t)
        /\ UNCHANGED <<fields, defaultValues, attempts, reloads, resetShadowed>>

Next == Edit \/ Submit \/ Respond \/ Reject \/ Click

Spec == Init /\ [][Next]_vars

\* The transport settles the request of attempt i, one way or the other.
Transport(i) ==
    /\ i \in DOMAIN attempts
    /\ \/ \E status \in Statuses : Settle(i, "fulfilled", status)
       \/ Settle(i, "rejected", 0)

\* The script under a transport that eventually resolves or rejects every
\* request; the event loop then runs the callbacks of the settled promise.
FairSpec == Spec /\ \A i \in 1..MaxSubmits : WF_vars(Transport(i))

----------------------------------------------------------------------------
\* Vocabulary of the properties.

HasOp(log, op) == \E k \in 1..Len(log) : log[k].op = op

CountOp(log, op) == Cardinality({k \in 1..Len(log) : log[k].op = op})

HasAlert(log, msg) == \E k \in 1..Len(log) : log[k] = AlertEff(msg)

\* The outcome of a settled attempt, from how its request settled.
IsSuccess(a) == a.state = "fulfilled" /\ ResponseOk(a.status)
IsHttpFailure(a) == a.state = "fulfilled" /\ ~ResponseOk(a.status)
IsNetworkFailure(a) == a.state = "rejected"

\* This step handles the settlement of attempt i.
Settles(i) == attempts[i].state = "pending" /\ attempts'[i].state # "pending"

\* C1 as stated: handling a response with a success status sets every field
\* to its default value, whatever the fields held, makes the overlay visible
\* and shows no alert.
C1_SuccessResetsAndShows ==
    [][\A i \in DOMAIN attempts :
          (Settles(i) /\ IsSuccess(attempts'[i])) =>
              /\ fields' = defaultValues
              /\ display' = "block"
              /\ ~HasOp(attempts'[i].log, "alert")]_vars

\* C2: handling a response with a non-success status shows one alert, with
\* the text of line 22, and leaves the fields and the overlay's display as
\* they were.
C2_HttpFailureAlerts ==
    [][\A i \in DOMAIN attempts :
          (Settles(i) /\ IsHttpFailure(attempts'[i])) =>
              /\ attempts'[i].log =
                     Append(attempts[i].log, AlertEff(HttpFailureMessage))
              /\ fields' = fields
              /\ display' = display]_vars

\* A response with status 500 was handled while the form held something other
\* than its defaults and the overlay was hidden.
C2_Witness ==
    /\ lastEvent = Event("settle", "fetch")
    /\ Len(attempts) = 1
    /\ attempts[1].state = "fulfilled"
    /\ attempts[1].status = 500
    /\ HasAlert(attempts[1].log, HttpFailureMessage)
    /\ fields # defaultValues
    /\ display = "none"

\* C3: handling a rejected fetch shows one alert, with the text of line 26,
\* and leaves the fields and the overlay's display as they were.
C3_NetworkFailureAlerts ==
    [][\A i \in DOMAIN attempts :
          (Settles(i) /\ IsNetworkFailure(attempts'[i])) =>
              /\ attempts'[i].log =
                     Append(attempts[i].log, AlertEff(NetworkErrorMessage))
              /\ fields' = fields
              /\ display' = display]_vars

\* A rejection was handled while the form held something other than its
\* defaults and the overlay was visible from an earlier success.
C3_Witness ==
    /\ lastEvent = Event("settle", "fetch")
    /\ \E i \in DOMAIN attempts :
           /\ IsNetworkFailure(attempts[i])
           /\ HasAlert(attempts[i].log, NetworkErrorMessage)
    /\ fields # defaultValues
    /\ display = "block"

\* C4 as stated: an attempt has at most one outcome: never the success
\* effect together with an alert, never two alerts; the success effect only
\* for a success status, the line 22 alert only for a non-success response,
\* the line 26 alert only when the fetch rejected.
C4_AtMostOneOutcome ==
    \A i \in DOMAIN attempts :
        LET a == attempts[i]
            success == HasOp(a.log, "reset") \/ HasOp(a.log, "show")
        IN  /\ CountOp(a.log, "alert") <= 1
            /\ CountOp(a.log, "reset") <= 1
            /\ CountOp(a.log, "show") <= 1
            /\ ~(success /\ HasOp(a.log, "alert"))
            /\ success => IsSuccess(a)
            /\ HasAlert(a.log, HttpFailureMessage) => IsHttpFailure(a)
            /\ HasAlert(a.log, NetworkErrorMessage) => IsNetworkFailure(a)
            /\ a.state = "pending" => ~success /\ ~HasOp(a.log, "alert")

\* C5: the overlay starts hidden; it becomes visible only in a step that
\* handles a success response and hidden only by a click on the close button
\* or on the overlay itself; a submit event and the handling of a failure
\* leave it as it is; it is visible only when some attempt has succeeded.
C5_OverlayTransitions ==
    /\ display = "none"
    /\ [][/\ display' \in {"none", "block"}
          /\ (display = "none" /\ display' = "block") =>
                 \E i \in DOMAIN attempts :
                     Settles(i) /\ IsSuccess(attempts'[i])
          /\ (display = "block" /\ display' = "none") =>
                 /\ lastEvent'.type = "click"
                 /\ \/ lastEvent'.target = "modal"
                    \/ ThroughCloseBtn(lastEvent'.target)
          /\ Len(attempts') > Len(attempts) => display' = display
          /\ \A i \in DOMAIN attempts :
                 (Settles(i) /\ ~IsSuccess(attempts'[i])) => display' = display
         ]_vars
    /\ [](display = "block" =>
              \E i \in DOMAIN attempts : IsSuccess(attempts[i]))

\* The overlay was shown by a success, dismissed, and a later attempt failed
\* with the overlay still hidden.
C5_Witness ==
    /\ Len(attempts) = 2
    /\ IsSuccess(attempts[1]) /\ HasOp(attempts[1].log, "show")
    /\ IsNetworkFailure(attempts[2])
    /\ lastEvent = Event("settle", "fetch")
    /\ display = "none"

\* C6: a click on the close button leaves the overlay hidden from either
\* display state, and a second click changes nothing more.
C6_CloseButtonHides ==
    /\ \A t \in {"closeBtn", "closeBtnChild"} :
           LET once == ClickDispatch(t, display)
           IN  once = "none" /\ ClickDispatch(t, once) = once
    /\ (lastEvent.type = "click" /\ ThroughCloseBtn(lastEvent.target)) =>
           display = "none"

\* The close button was clicked after a submission had succeeded.
C6_Witness ==
    /\ lastEvent = Event("click", "closeBtn")
    /\ display = "none"
    /\ \E i \in DOMAIN attempts : HasOp(attempts[i].log, "show")

\* C7 as stated: a click hides the overlay when its target is the overlay,
\* and a click with any other target leaves the display state unchanged.
C7_Original ==
    [][lastEvent'.type = "click" =>
          /\ lastEvent'.target = "modal" => display' = "none"
          /\ lastEvent'.target # "modal" => display' = display]_vars

\* C7 as amended: the window listener hides the overlay for the overlay as
\* target only; a click hides the overlay when its target is the overlay, the
\* close button or an element inside the close button, and a click with any
\* other target, inside the overlay or outside it, leaves the display state
\* unchanged.
C7_BackdropClick ==
    [][lastEvent'.type = "click" =>
          /\ (lastEvent'.target = "modal" \/ ThroughCloseBtn(lastEvent'.target))
                 => display' = "none"
          /\ (lastEvent'.target # "modal" /\ ~ThroughCloseBtn(lastEvent'.target))
                 => display' = display
          /\ \A t \in Targets \ {"modal"} :
                 WindowListener(t, display) = display]_vars

\* The overlay is visible after a click on its inner content.
C7_Witness ==
    /\ lastEvent = Event("click", "modalContent")
    /\ display = "block"

\* Requests issued for the first n submit events.
RECURSIVE RequestsIssued(_)
RequestsIssued(n) ==
    IF n = 0 THEN 0
    ELSE CountOp(attempts[n].log, "fetch") + RequestsIssued(n - 1)

\* C8: the requests issued are as many as the submit events, one for each,
\* also after an HTTP failure or a transport failure was handled.
C8_OneRequestPerSubmit ==
    /\ RequestsIssued(Len(attempts)) = Len(attempts)
    /\ \A i \in DOMAIN attempts : CountOp(attempts[i].log, "fetch") = 1

\* Two submit events, one ended in an HTTP failure and one in a transport
\* failure.
C8_Witness ==
    /\ Len(attempts) = 2
    /\ IsHttpFailure(attempts[1])
    /\ IsNetworkFailure(attempts[2])
    /\ RequestsIssued(2) = 2

\* C9: no submit event leads to the default navigation: every event has its
\* default prevented, before its request is issued, whatever the outcome.
C9_DefaultPrevented ==
    /\ reloads = 0
    /\ \A i \in DOMAIN attempts :
           LET log == attempts[i].log
           IN  /\ attempts[i].prevented
               /\ \E k \in 1..Len(log) :
                      /\ log[k].op = "preventDefault"
                      /\ \A m \in 1..Len(log) : log[m].op = "fetch" => k < m

\* Two submit events were handled; one succeeded, one failed.
C9_Witness ==
    /\ Len(attempts) = 2
    /\ IsSuccess(attempts[1])
    /\ ~IsSuccess(attempts[2]) /\ attempts[2].state # "pending"
    /\ reloads = 0

\* C10 as stated: when an attempt fails and the user has not edited the form
\* since its submit event, the fields hold the values that attempt sent.
C10_Original ==
    [][\A i \in DOMAIN attempts :
          (Settles(i) /\ ~IsSuccess(attempts'[i]) /\ ~attempts[i].edited) =>
              fields' = attempts[i].payload]_vars

\* C10 as amended: when an attempt fails, the user has not edited the form
\* since its submit event and no other attempt has succeeded since then, the
\* fields hold the values that attempt sent.
C10_InputPreserved ==
    [][\A i \in DOMAIN attempts :
          (/\ Settles(i)
           /\ ~IsSuccess(attempts'[i])
           /\ ~attempts[i].edited
           /\ ~attempts[i].resetSince) =>
              fields' = attempts[i].payload]_vars

\* An attempt failed while another was outstanding; the form was neither
\* edited nor reset since its submit and holds what it sent, not the defaults.
C10_Witness ==
    /\ lastEvent = Event("settle", "fetch")
    /\ Len(attempts) = 2
    /\ attempts[1].state = "pending"
    /\ attempts[2].state # "pending" /\ ~IsSuccess(attempts[2])
    /\ ~attempts[2].edited /\ ~attempts[2].resetSince
    /\ fields = attempts[2].payload
    /\ fields # defaultValues

\* C11: the submit listener has no in-progress guard: a submit event is
\* handled, and issues its request, whatever requests are outstanding, and
\* every outstanding request may be the next to settle, so two attempts can
\* be outstanding together and settle in either order.
C11_NoInProgressGuard ==
    /\ Len(attempts) < MaxSubmits => ENABLED Submit
    /\ \A i \in DOMAIN attempts :
           attempts[i].state = "pending" =>
               /\ CountOp(attempts[i].log, "fetch") = 1
               /\ ENABLED Settle(i, "fulfilled", 200)
               /\ ENABLED Settle(i, "rejected", 0)

\* The second of two overlapping submissions has settled while the first is
\* still outstanding.
C11_Witness ==
    /\ Len(attempts) = 2
    /\ attempts[1].state = "pending"
    /\ IsSuccess(attempts[2])
    /\ attempts[1].resetSince

\* C12: the payload of a request is the form's field values at its submit
\* event, and no later step, an edit or a reset by another attempt's success
\* among them, changes the payload of an attempt.
C12_PayloadIsSnapshot ==
    [][/\ \A i \in DOMAIN attempts :
              attempts'[i].payload = attempts[i].payload
       /\ Len(attempts') > Len(attempts) =>
              attempts'[Len(attempts')].payload = fields]_vars

\* An outstanding attempt whose form was since edited and reset by another
\* attempt's success, and whose payload differs from what the form holds now.
C12_Witness ==
    \E i \in DOMAIN attempts :
        /\ attempts[i].state = "pending"
        /\ attempts[i].edited
        /\ attempts[i].resetSince
        /\ attempts[i].payload # fields

\* Outcomes produced for an attempt: the success effect or an alert.
OutcomeCount(a) == CountOp(a.log, "show") + CountOp(a.log, "alert")

\* C13: with a transport that settles every request, every submit event is
\* eventually followed by exactly one outcome of its attempt: again and
\* again every attempt made so far has ended with one outcome, and an ended
\* attempt never changes, so each attempt ends after its submit event and
\* keeps its one outcome.  An attempt ends only by a settlement of its
\* request: the script has no timeout and no cancellation.
C13_EveryAttemptResolves ==
    /\ []<>(\A i \in DOMAIN attempts :
                /\ attempts[i].state # "pending"
                /\ OutcomeCount(attempts[i]) = 1)
    /\ [][\A i \in DOMAIN attempts :
              /\ Settles(i) =>
                     /\ lastEvent'.type = "settle"
                     /\ OutcomeCount(attempts[i]) = 0
                     /\ OutcomeCount(attempts'[i]) = 1
              /\ attempts[i].state # "pending" => attempts'[i] = attempts[i]
         ]_vars

\* Both of two overlapping attempts have ended, each with one outcome.
C13_Witness ==
    /\ Len(attempts) = 2
    /\ IsNetworkFailure(attempts[1]) /\ OutcomeCount(attempts[1]) = 1
    /\ IsSuccess(attempts[2]) /\ OutcomeCount(attempts[2]) = 1
    /\ attempts[2].resetSince = FALSE /\ attempts[2].edited

\* C14: a click, on the close button or anywhere else, changes nothing but
\* the overlay's display state: not the form's fields, not an attempt (no
\* request issued or ended, no alert), not the navigation count; an attempt
\* outstanding at a click can still settle, and when the click dismissed an
\* overlay that had been shown and the attempt then settles with a success,
\* the overlay is visible again.
C14_ClickFrame ==
    /\ [][/\ lastEvent'.type = "click" =>
                 /\ fields' = fields
                 /\ attempts' = attempts
                 /\ reloads' = reloads
          /\ \A i \in DOMAIN attempts :
                 (/\ lastEvent.type = "click"
                  /\ display = "none"
                  /\ \E j \in DOMAIN attempts : HasOp(attempts[j].log, "show")
                  /\ Settles(i)
                  /\ IsSuccess(attempts'[i])) => display' = "block"
         ]_vars
    /\ [](\A i \in DOMAIN attempts :
              (lastEvent.type = "click" /\ attempts[i].state = "pending") =>
                  /\ ENABLED Settle(i, "fulfilled", 200)
                  /\ ENABLED Settle(i, "rejected", 0))

\* The overlay shown by one attempt's success was dismissed with the close
\* button while another attempt was outstanding and the form held input.
C14_Witness ==
    /\ lastEvent = Event("click", "closeBtn")
    /\ display = "none"
    /\ Len(attempts) = 2
    /\ HasOp(attempts[1].log, "show")
    /\ attempts[2].state = "pending"
    /\ fields # defaultValues

====
